---- MODULE Spec2Model ----
(***************************************************************************)
(* Double-entry accounting engine of arabella-api: posting, reversal,      *)
(* account and transaction maintenance, over the relational store.         *)
(*                                                                         *)
(* Money (decimal.Decimal) is an integer number of minimal units.  A row   *)
(* id is the row's index in its table (auto-increment primary key).  A nil *)
(* *uint is 0.  A description is a sequence of words, so that a prefix     *)
(* added by fmt.Sprintf is the head of the sequence.  A time.Time is a day  *)
(* number, day 1 being 2026-01-01 (UTC); 0 is the zero time.               *)
(*                                                                         *)
(* The repository holds two definitions of accountingEngineService: the    *)
(* one that updates balances from the transaction (updateRealAccount-      *)
(* Balances) and the one that updates them from the journal entries        *)
(* (updateAccountBalances).  Which one a build links is the variable       *)
(* engine, chosen at Init and never changed.                               *)
(*                                                                         *)
(* The schema migrations are not part of the source: the store enforces    *)
(* only what the code checks, and no referential constraint.               *)
(***************************************************************************)
EXTENDS Integers, Sequences, FiniteSets, TLC

\* ---------------------------------------------------------------- bounds
MaxAccounts == 2
MaxTransactions == 2
MaxJournal == 8
MaxOps == 4
MaxStoreCalls == 7
\* postings in flight at once
MaxProcs == 2
\* rows of the largest transaction table a query is run on
MaxRows == 104

\* ---------------------------------------------------------------- inputs
Engines == {"real", "entries"}
FaultPoints == 0..MaxStoreCalls
\* time.Now() at a reversal
NowInputs == {3}
\* time.Now() at a dashboard query: 15 March, 31 March, 15 May 2026
QueryTimes == {74, 90, 135}
\* the users who query
Users == {1, 2}
\* an absent optional field (nil pointer) is <<>>, a present one is <<v>>
Nil == <<>>

Some(v) == <<v>>

Request(type, amount, from, to, cat) ==
    [Type |-> type, Description |-> <<"d">>, Amount |-> amount,
     AccountFromID |-> from, AccountToID |-> to, CategoryID |-> cat,
     TransactionDate |-> "2026-01-01T00:00:00Z", Notes |-> "", ExchangeRate |-> 0]

\* requests that pass validation, with the user who sends them: a category
\* id that is no account's id, that is account_from's own id, that is another
\* account's id; a transfer between two accounts and one onto itself
ValidPosts ==
    { <<Request("EXPENSE", 1, 1, 0, MaxAccounts + 1), 1>>,
      <<Request("EXPENSE", 1, 1, 0, 1), 1>>,
      <<[Request("EXPENSE", 2, 2, 0, MaxAccounts + 1) EXCEPT
             !.TransactionDate = "2026-02-01T00:00:00Z"], 2>>,
      <<Request("INCOME", 1, 2, 0, 1), 1>>,
      <<[Request("INCOME", 2, 1, 0, MaxAccounts + 1) EXCEPT !.ExchangeRate = 2], 1>>,
      <<Request("TRANSFER", 1, 1, 2, 0), 1>>,
      <<Request("TRANSFER", 1, 1, 1, 0), 1>>,
      <<Request("TRANSFER", 2, 2, 1, 0), 2>> }

\* one field of a valid request replaced
OddRequests ==
    LET e == Request("EXPENSE", 1, 1, 0, MaxAccounts + 1)
        t == Request("TRANSFER", 1, 1, 2, 0)
    IN { [e EXCEPT !.Amount = 0], [e EXCEPT !.Amount = -1], [t EXCEPT !.Amount = 0],
         [e EXCEPT !.Description = <<>>], [t EXCEPT !.Description = <<>>],
         [e EXCEPT !.TransactionDate = "0001-01-01T00:00:00Z"],
         [e EXCEPT !.TransactionDate = "bad"],
         [e EXCEPT !.ExchangeRate = -1], [t EXCEPT !.ExchangeRate = -1],
         [e EXCEPT !.Type = "DEBT_PAYMENT"], [t EXCEPT !.Type = "DEBT_PAYMENT"],
         [e EXCEPT !.Type = "FOO"], [e EXCEPT !.Type = ""],
         [t EXCEPT !.AccountToID = 0], [t EXCEPT !.CategoryID = 1],
         [e EXCEPT !.CategoryID = 0], [e EXCEPT !.AccountToID = 2],
         [e EXCEPT !.Type = "INCOME", !.CategoryID = 0],
         [e EXCEPT !.Type = "INCOME", !.AccountToID = 2] }

\* the requests during which a store call may fail
FaultRequests ==
    { Request("EXPENSE", 1, 1, 0, MaxAccounts + 1), Request("TRANSFER", 1, 1, 2, 0) }

\* a request whose row the store may refuse at the INSERT: the type column of
\* models.Transaction carries a check tag for INCOME, EXPENSE, TRANSFER, which
\* a schema built from the model enforces
CheckedRequests ==
    { [Request("EXPENSE", 1, 1, 0, MaxAccounts + 1) EXCEPT !.Type = "DEBT_PAYMENT"] }

\* <<request, user, failing store call or 0>>
PostInputs ==
    { <<p[1], p[2], 0>> : p \in ValidPosts }
    \cup { <<req, 1, 0>> : req \in OddRequests }
    \cup { <<req, 1, fault>> : req \in FaultRequests, fault \in 1..MaxStoreCalls }
    \cup { <<req, 1, 1>> : req \in CheckedRequests }

CreateAccountInputs ==
    { [UserID |-> 1, Name |-> "n", AccountType |-> "BANK", CurrencyID |-> 1, Balance |-> 5],
      [UserID |-> 2, Name |-> "n", AccountType |-> "BANK", CurrencyID |-> 1, Balance |-> 0],
      [UserID |-> 1, Name |-> "n", AccountType |-> "PIGGY", CurrencyID |-> 1, Balance |-> 0],
      [UserID |-> 1, Name |-> "", AccountType |-> "BANK", CurrencyID |-> 1, Balance |-> 0],
      [UserID |-> 1, Name |-> "n", AccountType |-> "BANK", CurrencyID |-> 0, Balance |-> 0] }

NoAccountUpdate == [Name |-> Nil, AccountType |-> Nil, CurrencyID |-> Nil, Balance |-> Nil, IsActive |-> Nil]

UpdateAccountInputs ==
    { [NoAccountUpdate EXCEPT !.Balance = Some(7), !.IsActive = Some(TRUE)],
      [NoAccountUpdate EXCEPT !.Name = Some("")],
      [NoAccountUpdate EXCEPT !.AccountType = Some("PIGGY")] }

NoTransactionUpdate ==
    [Description |-> Nil, Amount |-> Nil, TransactionDate |-> Nil, Notes |-> Nil, IsReconciled |-> Nil]

UpdateTransactionInputs ==
    { [NoTransactionUpdate EXCEPT !.Description = Some(<<"e">>), !.Notes = Some("n"),
                                  !.IsReconciled = Some(TRUE),
                                  !.TransactionDate = Some("2026-02-01T00:00:00Z")],
      [NoTransactionUpdate EXCEPT !.IsReconciled = Some(FALSE), !.Amount = Some(9)],
      [NoTransactionUpdate EXCEPT !.Description = Some(<<>>)] }

\* TransactionFilters of a list request
NoFilters ==
    [Type |-> "", AccountID |-> Nil, CategoryID |-> Nil, StartDate |-> Nil, EndDate |-> Nil,
     IsReconciled |-> Nil, Page |-> 0, PageSize |-> 0]

ListFilters ==
    { [f EXCEPT !.Page = page, !.PageSize = size] :
        f \in { NoFilters,
                [NoFilters EXCEPT !.Type = "EXPENSE"],
                [NoFilters EXCEPT !.AccountID = Some(2)],
                [NoFilters EXCEPT !.IsReconciled = Some(TRUE)],
                [NoFilters EXCEPT !.Type = "EXPENSE", !.IsReconciled = Some(FALSE)],
                [NoFilters EXCEPT !.CategoryID = Some(MaxAccounts + 1), !.StartDate = Some(32)],
                [NoFilters EXCEPT !.AccountID = Some(1), !.EndDate = Some(3)] },
        page \in {-1, 0, 1, 2},
        size \in {-1, 0, 1, 100, 500} }

VARIABLES engine, accounts, transactions, journal, reversals, ops, last, procs

vars == <<engine, accounts, transactions, journal, reversals, ops, last, procs>>

\* ------------------------------------------------------------- catalog
\* SystemValueSeeder: active rows of the system catalog
AccountTypeCatalog == {"BANK", "CASH", "CREDIT_CARD", "SAVINGS", "INVESTMENT", "CATEGORY"}
TransactionTypeCatalog == {"INCOME", "EXPENSE", "TRANSFER", "DEBT_PAYMENT"}

\* ------------------------------------------------------------- helpers
RECURSIVE SumAmounts(_)
SumAmounts(es) ==
    IF es = <<>> THEN 0 ELSE Head(es).Amount + SumAmounts(Tail(es))

\* journalEntry.IsDebit() / IsCredit()
IsDebit(e) == e.DebitOrCredit = "DEBIT"

IsCredit(e) == e.DebitOrCredit = "CREDIT"

\* the store as one value: what a unit of work reads and writes
Store == [accounts |-> accounts, transactions |-> transactions, journal |-> journal]

\* a unit of work in progress: working copy, store calls made, first error
Begin(st) == [st |-> st, n |-> 0, err |-> ""]

\* one store call inside the unit of work; the call numbered fault fails
StoreCall(w, fault) ==
    [w EXCEPT !.n = @ + 1,
              !.err = IF w.n + 1 = fault THEN "StoreFailure" ELSE ""]

Fail(w, e) == [w EXCEPT !.err = e]

\* gorm db.Transaction(fn): commit the working copy if fn returned nil,
\* roll back to the store as it was otherwise
Transaction(st, w) == IF w.err = "" THEN w.st ELSE st

\* --------------------------------------------------------- models.Account
\* account.UpdateBalance(amount)
UpdateBalance(a, amount) == [a EXCEPT !.Balance = @ + amount]

\* account.Validate()
AccountValidate(a) ==
    IF a.UserID = 0 THEN "ValidationError"
    ELSE IF a.Name = "" THEN "ValidationError"
    ELSE IF a.AccountType = "" THEN "ValidationError"
    ELSE IF a.CurrencyID = 0 THEN "ValidationError"
    ELSE ""

\* ----------------------------------------------------- models.Transaction
\* tx.Validate(): "" when the transaction passes
Validate(t) ==
    IF t.Amount <= 0 THEN "ValidationError"
    ELSE IF t.Type = "" THEN "ValidationError"
    ELSE IF t.Type = "TRANSFER" /\ t.AccountToID = 0 THEN "ValidationError"
    ELSE IF t.Type = "TRANSFER" /\ t.CategoryID # 0 THEN "ValidationError"
    ELSE IF t.Type \in {"INCOME", "EXPENSE"} /\ t.CategoryID = 0 THEN "ValidationError"
    ELSE IF t.Type \in {"INCOME", "EXPENSE"} /\ t.AccountToID # 0 THEN "ValidationError"
    ELSE IF t.Description = <<>> THEN "ValidationError"
    ELSE IF t.ExchangeRate # 0 /\ t.ExchangeRate < 0 THEN "ValidationError"
    ELSE IF t.TransactionDate = 0 THEN "ValidationError"
    ELSE ""

\* tx.CalculateAmountInUSD()
CalculateAmountInUSD(t) ==
    IF t.ExchangeRate = 0 \/ t.ExchangeRate = 1 THEN t.Amount
    ELSE t.Amount * t.ExchangeRate

\* time.Parse(time.RFC3339, s): -1 is a parse error, 0 the zero time
ParseDate(s) ==
    CASE s = "0001-01-01T00:00:00Z" -> 0
      [] s = "2026-01-01T00:00:00Z" -> 1
      [] s = "2026-02-01T00:00:00Z" -> 32
      [] OTHER -> -1

\* CreateTransactionRequest.ToModel(userID)
ToModel(req, userID) ==
    LET rate == IF req.ExchangeRate = 0 THEN 1 ELSE req.ExchangeRate
        t0 == [UserID |-> userID, Type |-> req.Type, Description |-> req.Description,
               Amount |-> req.Amount, AmountInUSD |-> 0, ExchangeRate |-> rate,
               AccountFromID |-> req.AccountFromID, AccountToID |-> req.AccountToID,
               CategoryID |-> req.CategoryID,
               TransactionDate |-> ParseDate(req.TransactionDate),
               Notes |-> req.Notes, IsReconciled |-> FALSE]
    IN [t0 EXCEPT !.AmountInUSD = CalculateAmountInUSD(t0)]

\* ------------------------------------------------ accountingEngineService
Entry(tx, txID, accountID, side, word) ==
    [UserID |-> tx.UserID, TransactionID |-> txID, AccountID |-> accountID,
     DebitOrCredit |-> side, Amount |-> tx.Amount, EntryDate |-> tx.TransactionDate,
     Description |-> <<word>> \o tx.Description]

\* (variant) the switch has no default case
generateJournalEntriesNoDefault(tx, txID) ==
    CASE tx.Type = "EXPENSE" ->
           IF tx.CategoryID = 0 THEN [entries |-> <<>>, err |-> "ValidationError"]
           ELSE [entries |-> << Entry(tx, txID, tx.CategoryID, "DEBIT", "Expense:"),
                                Entry(tx, txID, tx.AccountFromID, "CREDIT", "Payment:") >>,
                 err |-> ""]
      [] tx.Type = "INCOME" ->
           IF tx.CategoryID = 0 THEN [entries |-> <<>>, err |-> "ValidationError"]
           ELSE [entries |-> << Entry(tx, txID, tx.AccountFromID, "DEBIT", "Income:"),
                                Entry(tx, txID, tx.CategoryID, "CREDIT", "Revenue:") >>,
                 err |-> ""]
      [] tx.Type = "TRANSFER" ->
           IF tx.AccountToID = 0 THEN [entries |-> <<>>, err |-> "ValidationError"]
           ELSE [entries |-> << Entry(tx, txID, tx.AccountToID, "DEBIT", "Transfer in:"),
                                Entry(tx, txID, tx.AccountFromID, "CREDIT", "Transfer out:") >>,
                 err |-> ""]
      [] OTHER -> [entries |-> <<>>, err |-> ""]

\* generateJournalEntries(tx): [entries, err]
generateJournalEntries(tx, txID) ==
    CASE tx.Type = "EXPENSE" ->
           IF tx.CategoryID = 0 THEN [entries |-> <<>>, err |-> "ValidationError"]
           ELSE [entries |-> << Entry(tx, txID, tx.CategoryID, "DEBIT", "Expense:"),
                                Entry(tx, txID, tx.AccountFromID, "CREDIT", "Payment:") >>,
                 err |-> ""]
      [] tx.Type = "INCOME" ->
           IF tx.CategoryID = 0 THEN [entries |-> <<>>, err |-> "ValidationError"]
           ELSE [entries |-> << Entry(tx, txID, tx.AccountFromID, "DEBIT", "Income:"),
                                Entry(tx, txID, tx.CategoryID, "CREDIT", "Revenue:") >>,
                 err |-> ""]
      [] tx.Type = "TRANSFER" ->
           IF tx.AccountToID = 0 THEN [entries |-> <<>>, err |-> "ValidationError"]
           ELSE [entries |-> << Entry(tx, txID, tx.AccountToID, "DEBIT", "Transfer in:"),
                                Entry(tx, txID, tx.AccountFromID, "CREDIT", "Transfer out:") >>,
                 err |-> ""]
      [] OTHER -> [entries |-> <<>>, err |-> "UnsupportedKind"]

\* validateBalance(entries): "" when SUM(debits) = SUM(credits)
validateBalance(entries) ==
    LET totalDebits == SumAmounts(SelectSeq(entries, IsDebit))
        totalCredits == SumAmounts(SelectSeq(entries, IsCredit))
    IN IF totalDebits # totalCredits THEN "BalanceViolation" ELSE ""

\* applyBalanceChange(dbTx, accountID, change)
applyBalanceChange(w, accountID, change, fault) ==
    IF w.err # "" THEN w
    ELSE LET w1 == StoreCall(w, fault)      \* dbTx.First(&account, accountID)
         IN IF w1.err # "" THEN w1
            ELSE IF accountID \notin 1..Len(w1.st.accounts) THEN Fail(w1, "UnknownAccount")
            ELSE LET w2 == StoreCall(w1, fault)      \* dbTx.Save(&account)
                 IN IF w2.err # "" THEN w2
                    ELSE [w2 EXCEPT !.st.accounts[accountID] = UpdateBalance(@, change)]

\* (variant) the second change of a TRANSFER is written over the balance read
\* before the first one
updateRealAccountBalancesStale(w, tx, fault) ==
    CASE tx.Type = "EXPENSE" -> applyBalanceChange(w, tx.AccountFromID, -tx.Amount, fault)
      [] tx.Type = "INCOME" -> applyBalanceChange(w, tx.AccountFromID, tx.Amount, fault)
      [] tx.Type = "TRANSFER" ->
           IF tx.AccountToID = 0 THEN Fail(w, "ValidationError")
           ELSE LET w2 == applyBalanceChange(
                              applyBalanceChange(w, tx.AccountFromID, -tx.Amount, fault),
                              tx.AccountToID, tx.Amount, fault)
                IN IF w2.err # "" THEN w2
                   ELSE [w2 EXCEPT !.st.accounts[tx.AccountToID] =
                            UpdateBalance(w.st.accounts[tx.AccountToID], tx.Amount)]
      [] OTHER -> Fail(w, "UnsupportedKind")

\* updateRealAccountBalances(dbTx, tx)
updateRealAccountBalances(w, tx, fault) ==
    CASE tx.Type = "EXPENSE" -> applyBalanceChange(w, tx.AccountFromID, -tx.Amount, fault)
      [] tx.Type = "INCOME" -> applyBalanceChange(w, tx.AccountFromID, tx.Amount, fault)
      [] tx.Type = "TRANSFER" ->
           IF tx.AccountToID = 0 THEN Fail(w, "ValidationError")
           ELSE applyBalanceChange(
                    applyBalanceChange(w, tx.AccountFromID, -tx.Amount, fault),
                    tx.AccountToID, tx.Amount, fault)
      [] OTHER -> Fail(w, "UnsupportedKind")

\* (variant) the reversal applies the posting's signs again
reverseRealAccountBalancesSameSign(w, tx, fault) ==
    CASE tx.Type = "EXPENSE" -> applyBalanceChange(w, tx.AccountFromID, -tx.Amount, fault)
      [] tx.Type = "INCOME" -> applyBalanceChange(w, tx.AccountFromID, tx.Amount, fault)
      [] tx.Type = "TRANSFER" ->
           IF tx.AccountToID = 0 THEN Fail(w, "ValidationError")
           ELSE applyBalanceChange(
                    applyBalanceChange(w, tx.AccountFromID, -tx.Amount, fault),
                    tx.AccountToID, tx.Amount, fault)
      [] OTHER -> Fail(w, "UnsupportedKind")

\* reverseRealAccountBalances(dbTx, tx)
reverseRealAccountBalances(w, tx, fault) ==
    CASE tx.Type = "EXPENSE" -> applyBalanceChange(w, tx.AccountFromID, tx.Amount, fault)
      [] tx.Type = "INCOME" -> applyBalanceChange(w, tx.AccountFromID, -tx.Amount, fault)
      [] tx.Type = "TRANSFER" ->
           IF tx.AccountToID = 0 THEN Fail(w, "ValidationError")
           ELSE applyBalanceChange(
                    applyBalanceChange(w, tx.AccountFromID, tx.Amount, fault),
                    tx.AccountToID, -tx.Amount, fault)
      [] OTHER -> Fail(w, "UnsupportedKind")

\* updateAccountBalances(dbTx, entries), first loop: the net change per
\* account id, a DEBIT counting positive and a CREDIT negative
RECURSIVE accountUpdates(_, _)
accountUpdates(entries, id) ==
    IF entries = <<>> THEN 0
    ELSE LET e == Head(entries)
             amount == IF e.DebitOrCredit = "CREDIT" THEN -e.Amount ELSE e.Amount
         IN (IF e.AccountID = id THEN amount ELSE 0) + accountUpdates(Tail(entries), id)

\* updateAccountBalances(dbTx, entries), second loop over the ids of the map.
\* Go ranges over a map in no fixed order; the ids are taken in ascending
\* order here, which gives the same balances and the same success or failure
\* (a failing store call fails the loop wherever it falls).
RECURSIVE applyAccountUpdates(_, _, _, _)
applyAccountUpdates(w, ids, entries, fault) ==
    IF w.err # "" \/ ids = {} THEN w
    ELSE LET accountID == CHOOSE i \in ids : \A j \in ids : i <= j
             w1 == StoreCall(w, fault)      \* dbTx.First(&account, accountID)
             next == IF w1.err # "" THEN w1
                     ELSE IF accountID \notin 1..Len(w1.st.accounts) THEN w1      \* continue
                     ELSE LET w2 == StoreCall(w1, fault)      \* dbTx.Save(&account)
                          IN IF w2.err # "" THEN w2
                             ELSE [w2 EXCEPT !.st.accounts[accountID] =
                                      UpdateBalance(@, accountUpdates(entries, accountID))]
         IN applyAccountUpdates(next, ids \ {accountID}, entries, fault)

updateAccountBalances(w, entries, fault) ==
    applyAccountUpdates(w, { entries[i].AccountID : i \in 1..Len(entries) }, entries, fault)

\* ProcessTransaction(tx): the unit of work when it returns
ProcessTransaction(st, tx, fault, eng) ==
    IF Validate(tx) # "" THEN Fail(Begin(st), Validate(tx))
    ELSE LET w1 == StoreCall(Begin(st), fault)      \* dbTx.Create(tx)
             txID == Len(st.transactions) + 1
             gen == generateJournalEntries(tx, txID)
         IN IF w1.err # "" THEN w1
            ELSE IF gen.err # "" THEN Fail(w1, gen.err)
            ELSE IF validateBalance(gen.entries) # "" THEN Fail(w1, validateBalance(gen.entries))
            ELSE LET w2 == StoreCall(w1, fault)      \* dbTx.Create(&entries)
                     w3 == [w2 EXCEPT !.st.transactions = Append(@, tx),
                                      !.st.journal = @ \o gen.entries]
                 IN IF w2.err # "" THEN w2
                    ELSE IF eng = "real" THEN updateRealAccountBalances(w3, tx, fault)
                    ELSE updateAccountBalances(w3, gen.entries, fault)

\* FindByTransaction(transactionID): ORDER BY debit_or_credit DESC
FindByTransaction(jrn, transactionID) ==
    LET OfTxDebit(e) == e.TransactionID = transactionID /\ e.DebitOrCredit = "DEBIT"
        OfTxCredit(e) == e.TransactionID = transactionID /\ e.DebitOrCredit # "DEBIT"
    IN SelectSeq(jrn, OfTxDebit) \o SelectSeq(jrn, OfTxCredit)

\* journalEntryRepository.VerifyTransactionBalance(transactionID)
VerifyTransactionBalance(jrn, transactionID) ==
    LET DebitOfTx(e) == e.TransactionID = transactionID /\ e.DebitOrCredit = "DEBIT"
        CreditOfTx(e) == e.TransactionID = transactionID /\ e.DebitOrCredit = "CREDIT"
    IN [totalDebit |-> SumAmounts(SelectSeq(jrn, DebitOfTx)),
        totalCredit |-> SumAmounts(SelectSeq(jrn, CreditOfTx))]

\* journalEntryService.VerifyTransactionBalance(transactionID)
BalanceVerification(jrn, transactionID) ==
    LET v == VerifyTransactionBalance(jrn, transactionID)
        difference == v.totalDebit - v.totalCredit
    IN [TotalDebits |-> v.totalDebit, TotalCredits |-> v.totalCredit,
        Difference |-> difference, IsBalanced |-> difference = 0]

\* journalEntryRepository.GetAccountBalance(accountID, nil)
GetAccountBalance(jrn, accountID) ==
    LET DebitOn(e) == e.AccountID = accountID /\ e.DebitOrCredit = "DEBIT"
        CreditOn(e) == e.AccountID = accountID /\ e.DebitOrCredit = "CREDIT"
    IN SumAmounts(SelectSeq(jrn, DebitOn)) - SumAmounts(SelectSeq(jrn, CreditOn))

\* (variant) the reversing entries are all written on the DEBIT side
reversingEntriesOneSide(originalEntries, transactionID, now) ==
    [ i \in 1..Len(originalEntries) |->
        LET original == originalEntries[i]
        IN [UserID |-> original.UserID, TransactionID |-> transactionID,
            AccountID |-> original.AccountID,
            DebitOrCredit |-> "DEBIT",
            Amount |-> original.Amount, EntryDate |-> now,
            Description |-> <<"REVERSAL:">> \o original.Description] ]

\* the loop of ReverseTransaction: one reversing entry per original entry
reversingEntries(originalEntries, transactionID, now) ==
    [ i \in 1..Len(originalEntries) |->
        LET original == originalEntries[i]
        IN [UserID |-> original.UserID, TransactionID |-> transactionID,
            AccountID |-> original.AccountID,
            DebitOrCredit |-> IF original.DebitOrCredit = "DEBIT" THEN "CREDIT" ELSE "DEBIT",
            Amount |-> original.Amount, EntryDate |-> now,
            Description |-> <<"REVERSAL:">> \o original.Description] ]

\* (variant) the reversal leaves tx.IsReconciled as it was
ReverseTransactionUnmarked(st, transactionID, now, fault, eng) ==
    LET w1 == StoreCall(Begin(st), fault)
    IN IF w1.err # "" THEN w1
       ELSE IF transactionID \notin 1..Len(st.transactions) THEN Fail(w1, "NotFound")
       ELSE LET tx == st.transactions[transactionID]
                w2 == StoreCall(w1, fault)
                rev == reversingEntries(FindByTransaction(st.journal, transactionID),
                                        transactionID, now)
                w3 == StoreCall(w2, fault)
                w4 == [w3 EXCEPT !.st.journal = @ \o rev]
                w5 == IF eng = "real" THEN reverseRealAccountBalances(w4, tx, fault)
                      ELSE updateAccountBalances(w4, rev, fault)
                w6 == StoreCall(w5, fault)
            IN IF w2.err # "" THEN w2
               ELSE IF w3.err # "" THEN w3
               ELSE IF rev = <<>> THEN Fail(w3, "StoreFailure")
               ELSE IF w5.err # "" THEN w5
               ELSE w6

\* ReverseTransaction(transactionID): the unit of work when it returns
ReverseTransaction(st, transactionID, now, fault, eng) ==
    LET w1 == StoreCall(Begin(st), fault)      \* transactionRepository.FindByID
    IN IF w1.err # "" THEN w1
       ELSE IF transactionID \notin 1..Len(st.transactions) THEN Fail(w1, "NotFound")
       ELSE LET tx == st.transactions[transactionID]
                w2 == StoreCall(w1, fault)      \* journalEntryRepository.FindByTransaction
                rev == reversingEntries(FindByTransaction(st.journal, transactionID),
                                        transactionID, now)
                w3 == StoreCall(w2, fault)      \* dbTx.Create(&reversingEntries)
                w4 == [w3 EXCEPT !.st.journal = @ \o rev]
                w5 == IF eng = "real" THEN reverseRealAccountBalances(w4, tx, fault)
                      ELSE updateAccountBalances(w4, rev, fault)
                w6 == StoreCall(w5, fault)      \* dbTx.Save(tx)
            IN IF w2.err # "" THEN w2
               ELSE IF w3.err # "" THEN w3
               ELSE IF rev = <<>> THEN Fail(w3, "StoreFailure")      \* gorm: empty slice
               ELSE IF w5.err # "" THEN w5
               ELSE IF w6.err # "" THEN w6
               ELSE [w6 EXCEPT !.st.transactions[transactionID].IsReconciled = TRUE]

\* ------------------------------------------------------------------ time
\* time.Date(2026, month, 1, ...) as a day number; month 0 is December 2025
StartOf(month) ==
    CASE month = -1 -> -60 [] month = 0 -> -30 [] month = 1 -> 1 [] month = 2 -> 32
      [] month = 3 -> 60 [] month = 4 -> 91 [] month = 5 -> 121 [] month = 6 -> 152

\* time.Date(2026, month, day, ...): a day past the end of the month runs
\* into the next month
Date(month, day) == StartOf(month) + day - 1

\* t.Month(), counted from January 2026
MonthOf(t) == CHOOSE month \in -1..5 : StartOf(month) <= t /\ t < StartOf(month + 1)

\* t.Day()
DayOf(t) == t - StartOf(MonthOf(t)) + 1

\* t.AddDate(0, months, 0)
AddDate(t, months) == Date(MonthOf(t) + months, DayOf(t))

\* ----------------------------------------------------- the query layer
\* transactionRepository.GetMonthlyStats(userID, month, year), year 2026
GetMonthlyStats(txs, userID, month) ==
    LET InMonth(t) == /\ t.UserID = userID
                      /\ t.TransactionDate >= StartOf(month)
                      /\ t.TransactionDate < StartOf(month + 1)
        IncomeRow(t) == InMonth(t) /\ t.Type = "INCOME"
        ExpenseRow(t) == InMonth(t) /\ t.Type = "EXPENSE"
    IN [income |-> SumAmounts(SelectSeq(txs, IncomeRow)),
        expenses |-> SumAmounts(SelectSeq(txs, ExpenseRow)),
        count |-> Len(SelectSeq(txs, InMonth))]

RECURSIVE SumBalances(_)
SumBalances(accts) ==
    IF accts = <<>> THEN 0 ELSE Head(accts).Balance + SumBalances(Tail(accts))

\* accountRepository.GetTotalAssets(userID)
GetTotalAssets(accts, userID) ==
    LET Row(a) == /\ a.UserID = userID
                  /\ a.AccountType \in {"BANK", "CASH", "SAVINGS", "INVESTMENT"}
                  /\ a.IsActive
    IN SumBalances(SelectSeq(accts, Row))

\* (variant) soft-deleted accounts are counted
GetTotalLiabilitiesAnyState(accts, userID) ==
    LET Row(a) == a.UserID = userID /\ a.AccountType = "CREDIT_CARD"
    IN SumBalances(SelectSeq(accts, Row))

\* accountRepository.GetTotalLiabilities(userID)
GetTotalLiabilities(accts, userID) ==
    LET Row(a) == a.UserID = userID /\ a.AccountType = "CREDIT_CARD" /\ a.IsActive
    IN SumBalances(SelectSeq(accts, Row))

\* accountRepository.GetLiquidAssets(userID)
GetLiquidAssets(accts, userID) ==
    LET Row(a) == a.UserID = userID /\ a.AccountType \in {"BANK", "CASH"} /\ a.IsActive
    IN SumBalances(SelectSeq(accts, Row))

\* the loop of calculateRunway: [totalExpenses, monthsWithData] after the
\* months now, now.AddDate(0, -1, 0), ..., now.AddDate(0, -(i - 1), 0)
RECURSIVE expensesOverMonths(_, _, _, _)
expensesOverMonths(txs, userID, now, i) ==
    IF i = 0 THEN [totalExpenses |-> 0, monthsWithData |-> 0]
    ELSE LET rest == expensesOverMonths(txs, userID, now, i - 1)
             targetDate == AddDate(now, -(i - 1))
             expenses == GetMonthlyStats(txs, userID, MonthOf(targetDate)).expenses
         IN IF expenses # 0
            THEN [totalExpenses |-> rest.totalExpenses + expenses,
                  monthsWithData |-> rest.monthsWithData + 1]
            ELSE rest

\* int(x) of a quotient num / den, den > 0: truncation towards zero
Truncate(num, den) == IF num >= 0 THEN num \div den ELSE -((-num) \div den)

\* dashboardService.calculateRunway(userID, liquidAssets, liabilities).  A
\* quotient is kept as the exact fraction num / den with den > 0 (the
\* rounding of decimal.Div at 16 places and of Float64 is left out).
calculateRunway(txs, userID, liquidAssets, liabilities, now) ==
    LET availableFunds == liquidAssets - liabilities
        sum == expensesOverMonths(txs, userID, now, 3)
    IN IF sum.monthsWithData = 0 \/ sum.totalExpenses = 0
       THEN [runwayMonths |-> [num |-> 0, den |-> 1], runwayDays |-> 0,
             avgMonthlyExpenses |-> [num |-> 0, den |-> 1]]
       ELSE [runwayMonths |-> [num |-> availableFunds * sum.monthsWithData,
                               den |-> sum.totalExpenses],
             runwayDays |-> Truncate(availableFunds * sum.monthsWithData * 30,
                                     sum.totalExpenses),
             avgMonthlyExpenses |-> [num |-> sum.totalExpenses,
                                     den |-> sum.monthsWithData]]

\* num / den < k, den > 0
Below(q, k) == q.num < k * q.den

\* dashboardService.CalculateRunway(userID)
CalculateRunway(accts, txs, userID, now) ==
    LET liquidAssets == GetLiquidAssets(accts, userID)
        liabilities == GetTotalLiabilities(accts, userID)
        r == calculateRunway(txs, userID, liquidAssets, liabilities, now)
        status == IF Below(r.runwayMonths, 3) THEN "CRITICAL"
                  ELSE IF Below(r.runwayMonths, 6) THEN "WARNING"
                  ELSE "HEALTHY"
    IN [LiquidAssets |-> liquidAssets, ShortTermLiabilities |-> liabilities,
        AvailableFunds |-> liquidAssets - liabilities,
        AverageMonthlyExpenses |-> r.avgMonthlyExpenses,
        RunwayMonths |-> r.runwayMonths, RunwayDays |-> r.runwayDays,
        Status |-> status, Warning |-> status # "HEALTHY"]

\* the ids among lo..hi, the greatest first
RECURSIVE Descending(_, _, _)
Descending(ids, lo, hi) ==
    IF lo > hi THEN <<>>
    ELSE IF lo = hi THEN (IF lo \in ids THEN <<lo>> ELSE <<>>)
    ELSE LET mid == (lo + hi) \div 2
         IN Descending(ids, mid + 1, hi) \o Descending(ids, lo, mid)

\* the months calculateRunway asks GetMonthlyStats for, i = 0, 1, 2
monthsRead(now) == [i \in 0..2 |-> MonthOf(AddDate(now, -i))]

\* accountRepository.FindByUserID(userID): ids of the active accounts of
\* the user, ORDER BY created_at DESC, with their balances
FindByUserID(accts, userID) ==
    LET Mine(i) == accts[i].UserID = userID /\ accts[i].IsActive
        ids == Descending({ i \in 1..Len(accts) : Mine(i) }, 1, Len(accts))
    IN [k \in 1..Len(ids) |-> [ID |-> ids[k], Balance |-> accts[ids[k]].Balance,
                               IsActive |-> accts[ids[k]].IsActive]]

\* dashboardService.GetDashboard(userID), every read made on the same rows
GetDashboard(accts, txs, userID, now) ==
    LET totalAssets == GetTotalAssets(accts, userID)
        totalLiabilities == GetTotalLiabilities(accts, userID)
        liquidAssets == GetLiquidAssets(accts, userID)
        stats == GetMonthlyStats(txs, userID, MonthOf(now))
        r == calculateRunway(txs, userID, liquidAssets, totalLiabilities, now)
    IN [TotalAssets |-> totalAssets, TotalLiabilities |-> totalLiabilities,
        NetWorth |-> totalAssets - totalLiabilities, LiquidAssets |-> liquidAssets,
        MonthlyIncome |-> stats.income, MonthlyExpenses |-> stats.expenses,
        MonthlyNetCashFlow |-> stats.income - stats.expenses,
        Runway |-> r.runwayMonths, RunwayDays |-> r.runwayDays,
        AverageMonthlyExpenses |-> r.avgMonthlyExpenses,
        AccountBalances |-> FindByUserID(accts, userID)]


\* ORDER BY transaction_date DESC, created_at DESC of the rows ids; rows are
\* created one at a time, so created_at grows with the id
RECURSIVE Ordered(_, _)
Ordered(txs, ids) ==
    IF ids = {} THEN <<>>
    ELSE LET dates == { txs[i].TransactionDate : i \in ids }
             latest == CHOOSE d \in dates : \A e \in dates : d >= e
             same == { i \in ids : txs[i].TransactionDate = latest }
         IN Descending(same, 1, Len(txs)) \o Ordered(txs, ids \ same)

\* (variant) the page size has no upper limit
FindByUserUnclamped(txs, userID, filters) ==
    LET Where(t) ==
            /\ t.UserID = userID
            /\ filters.Type # "" => t.Type = filters.Type
            /\ filters.AccountID # Nil =>
                  \/ t.AccountFromID = filters.AccountID[1]
                  \/ t.AccountToID # 0 /\ t.AccountToID = filters.AccountID[1]
            /\ filters.CategoryID # Nil =>
                  t.CategoryID # 0 /\ t.CategoryID = filters.CategoryID[1]
            /\ filters.StartDate # Nil => t.TransactionDate >= filters.StartDate[1]
            /\ filters.EndDate # Nil => t.TransactionDate <= filters.EndDate[1]
            /\ filters.IsReconciled # Nil => t.IsReconciled = filters.IsReconciled[1]
        ids == { i \in 1..Len(txs) : Where(txs[i]) }
        total == Cardinality(ids)
        page == IF filters.Page < 1 THEN 1 ELSE filters.Page
        pageSize == IF filters.PageSize < 1 THEN 20 ELSE filters.PageSize
        offset == (page - 1) * pageSize
        last_ == IF offset + pageSize < total THEN offset + pageSize ELSE total
    IN [transactions |-> SubSeq(Ordered(txs, ids), offset + 1, last_), total |-> total]

\* transactionRepository.FindByUser(userID, filters): the ids of the rows of
\* the page, and the count
FindByUser(txs, userID, filters) ==
    LET Where(t) ==
            /\ t.UserID = userID
            /\ filters.Type # "" => t.Type = filters.Type
            /\ filters.AccountID # Nil =>
                  \/ t.AccountFromID = filters.AccountID[1]
                  \/ t.AccountToID # 0 /\ t.AccountToID = filters.AccountID[1]
            /\ filters.CategoryID # Nil =>
                  t.CategoryID # 0 /\ t.CategoryID = filters.CategoryID[1]
            /\ filters.StartDate # Nil => t.TransactionDate >= filters.StartDate[1]
            /\ filters.EndDate # Nil => t.TransactionDate <= filters.EndDate[1]
            /\ filters.IsReconciled # Nil => t.IsReconciled = filters.IsReconciled[1]
        ids == { i \in 1..Len(txs) : Where(txs[i]) }
        total == Cardinality(ids)
        page == IF filters.Page < 1 THEN 1 ELSE filters.Page
        pageSize == IF filters.PageSize < 1 THEN 20
                    ELSE IF filters.PageSize > 100 THEN 100
                    ELSE filters.PageSize
        offset == (page - 1) * pageSize
        last_ == IF offset + pageSize < total THEN offset + pageSize ELSE total
    IN [transactions |-> SubSeq(Ordered(txs, ids), offset + 1, last_), total |-> total]

\* transactionService.GetByUser(userID, filters)
GetByUser(txs, userID, filters) ==
    LET found == FindByUser(txs, userID, filters)
        pageSize == IF filters.PageSize < 1 THEN 20 ELSE filters.PageSize
        totalPages == (found.total \div pageSize)
                      + (IF found.total % pageSize > 0 THEN 1 ELSE 0)
    IN [Transactions |-> found.transactions, Total |-> found.total,
        Page |-> filters.Page, PageSize |-> pageSize, TotalPages |-> totalPages]

\* ------------------------------------------------------------ the system
Balances(accts) == [ i \in 1..Len(accts) |-> accts[i].Balance ]

\* Exploration bounds: at most MaxOps successful calls, and a behaviour ends
\* at its first failed call.  A failed call changes no table (property
\* FailedCallKeepsStore below), so the calls that could follow it are the
\* calls that can be made from the state before it.
Ready == ops < MaxOps /\ last.err = ""

\* the requests being served at once; each is the goroutine of one HTTP call
Procs == 1..MaxProcs

\* a request not yet received
Idle ==
    [pc |-> "idle", tx |-> <<>>, todo |-> <<>>, account |-> <<>>, writes |-> {},
     entries |-> <<>>, response |-> <<>>]

Init ==
    /\ engine \in Engines
    /\ accounts = <<>>
    /\ transactions = <<>>
    /\ journal = <<>>
    /\ reversals = <<>>
    /\ ops = 0
    /\ last = [op |-> "none", err |-> "", id |-> 0, n |-> 0, pre |-> <<>>]
    /\ procs = [p \in Procs |-> Idle]

\* accountService.Create(req)
AccountCreate(req) ==
    LET account == [UserID |-> req.UserID, Name |-> req.Name, AccountType |-> req.AccountType,
                    CurrencyID |-> req.CurrencyID, Balance |-> req.Balance, IsActive |-> TRUE]
        err == IF req.AccountType \notin AccountTypeCatalog THEN "UnknownCatalogValue"
               ELSE AccountValidate(account)
    IN /\ Ready
       /\ Len(accounts) < MaxAccounts
       /\ accounts' = IF err = "" THEN Append(accounts, account) ELSE accounts
       /\ ops' = IF err = "" THEN ops + 1 ELSE ops
       /\ last' = [op |-> "account_create", err |-> err,
                   id |-> IF err = "" THEN Len(accounts) + 1 ELSE 0, n |-> 0, pre |-> <<>>]
       /\ UNCHANGED <<engine, transactions, journal, reversals, procs>>

\* accountService.Update(id, req)
AccountUpdate(id, req) ==
    LET found == id \in 1..Len(accounts)
        a0 == accounts[id]
        a1 == IF req.Name # Nil THEN [a0 EXCEPT !.Name = req.Name[1]] ELSE a0
        a2 == IF req.AccountType # Nil THEN [a1 EXCEPT !.AccountType = req.AccountType[1]] ELSE a1
        a3 == IF req.CurrencyID # Nil THEN [a2 EXCEPT !.CurrencyID = req.CurrencyID[1]] ELSE a2
        a4 == IF req.Balance # Nil THEN [a3 EXCEPT !.Balance = req.Balance[1]] ELSE a3
        a5 == IF req.IsActive # Nil THEN [a4 EXCEPT !.IsActive = req.IsActive[1]] ELSE a4
        err == IF ~found THEN "NotFound" ELSE AccountValidate(a5)
    IN /\ Ready
       /\ accounts' = IF err = "" THEN [accounts EXCEPT ![id] = a5] ELSE accounts
       /\ ops' = IF accounts' = accounts THEN ops ELSE ops + 1
       /\ last' = [op |-> "account_update", err |-> err, id |-> IF err = "" THEN id ELSE 0,
                   n |-> 0, pre |-> <<>>]
       /\ UNCHANGED <<engine, transactions, journal, reversals, procs>>

\* accountService.Delete(id)
AccountDelete(id) ==
    LET found == id \in 1..Len(accounts)
        err == IF ~found THEN "NotFound" ELSE AccountValidate([accounts[id] EXCEPT !.IsActive = FALSE])
    IN /\ Ready
       /\ accounts' = IF err = "" THEN [accounts EXCEPT ![id].IsActive = FALSE] ELSE accounts
       /\ ops' = IF accounts' = accounts THEN ops ELSE ops + 1
       /\ last' = [op |-> "account_delete", err |-> err, id |-> IF err = "" THEN id ELSE 0,
                   n |-> 0, pre |-> <<>>]
       /\ UNCHANGED <<engine, transactions, journal, reversals, procs>>

\* transactionService.Create(req, userID): post
TransactionCreate(req, userID, fault) ==
    LET tx == ToModel(req, userID)
        w == IF tx.TransactionDate = -1 THEN Fail(Begin(Store), "InvalidData")
             ELSE ProcessTransaction(Store, tx, fault, engine)
        st == Transaction(Store, w)
    IN /\ Ready
       /\ Len(transactions) < MaxTransactions
       /\ Len(journal) + 2 <= MaxJournal
       /\ accounts' = st.accounts
       /\ transactions' = st.transactions
       /\ journal' = st.journal
       /\ reversals' = IF w.err = "" THEN Append(reversals, 0) ELSE reversals
       /\ ops' = IF w.err = "" THEN ops + 1 ELSE ops
       /\ last' = [op |-> "post", err |-> w.err,
                   id |-> IF w.err = "" THEN Len(st.transactions) ELSE 0, n |-> w.n,
                   pre |-> IF w.err = "" THEN Balances(accounts) ELSE <<>>]
       /\ UNCHANGED <<engine, procs>>

\* transactionService.Update(id, req)
TransactionUpdate(id, req) ==
    LET found == id \in 1..Len(transactions)
        t0 == transactions[id]
        t1 == IF req.Description # Nil THEN [t0 EXCEPT !.Description = req.Description[1]] ELSE t0
        t2 == IF req.Notes # Nil THEN [t1 EXCEPT !.Notes = req.Notes[1]] ELSE t1
        t3 == IF req.IsReconciled # Nil THEN [t2 EXCEPT !.IsReconciled = req.IsReconciled[1]] ELSE t2
        err == IF ~found THEN "NotFound" ELSE Validate(t3)
    IN /\ Ready
       /\ transactions' = IF err = "" THEN [transactions EXCEPT ![id] = t3] ELSE transactions
       /\ ops' = IF transactions' = transactions THEN ops ELSE ops + 1
       /\ last' = [op |-> "update", err |-> err, id |-> IF err = "" THEN id ELSE 0,
                   n |-> 0, pre |-> <<>>]
       /\ UNCHANGED <<engine, accounts, journal, reversals, procs>>

\* (variant) the delete removes the transaction's journal entries
TransactionDeleteHard(id, now, fault) ==
    LET w == ReverseTransaction(Store, id, now, fault, engine)
        st == Transaction(Store, w)
        chained == last.op = "post" /\ last.err = "" /\ last.id = id
        NotOfTx(e) == e.TransactionID # id
    IN /\ Ready
       /\ Len(journal) + Len(FindByTransaction(journal, id)) <= MaxJournal
       /\ accounts' = st.accounts
       /\ transactions' = st.transactions
       /\ journal' = IF w.err = "" THEN SelectSeq(journal, NotOfTx) ELSE journal
       /\ reversals' = IF w.err = "" THEN [reversals EXCEPT ![id] = @ + 1] ELSE reversals
       /\ ops' = IF w.err = "" THEN ops + 1 ELSE ops
       /\ last' = [op |-> IF chained /\ w.err = "" THEN "post_reverse" ELSE "reverse",
                   err |-> w.err, id |-> IF w.err = "" THEN id ELSE 0, n |-> w.n,
                   pre |-> IF chained /\ w.err = "" THEN last.pre ELSE <<>>]
       /\ UNCHANGED <<engine, procs>>

\* transactionService.Delete(id): reverse
TransactionDelete(id, now, fault) ==
    LET w == ReverseTransaction(Store, id, now, fault, engine)
        st == Transaction(Store, w)
        chained == last.op = "post" /\ last.err = "" /\ last.id = id
    IN /\ Ready
       /\ Len(journal) + Len(FindByTransaction(journal, id)) <= MaxJournal
       /\ accounts' = st.accounts
       /\ transactions' = st.transactions
       /\ journal' = st.journal
       /\ reversals' = IF w.err = "" THEN [reversals EXCEPT ![id] = @ + 1] ELSE reversals
       /\ ops' = IF w.err = "" THEN ops + 1 ELSE ops
       /\ last' = [op |-> IF chained /\ w.err = "" THEN "post_reverse" ELSE "reverse",
                   err |-> w.err, id |-> IF w.err = "" THEN id ELSE 0, n |-> w.n,
                   pre |-> IF chained /\ w.err = "" THEN last.pre ELSE <<>>]
       /\ UNCHANGED <<engine, procs>>

Next ==
    \/ \E req \in CreateAccountInputs : AccountCreate(req)
    \/ \E id \in {1, MaxAccounts + 1}, req \in UpdateAccountInputs : AccountUpdate(id, req)
    \/ \E id \in {1, MaxAccounts + 1} : AccountDelete(id)
    \/ \E p \in PostInputs : TransactionCreate(p[1], p[2], p[3])
    \/ \E id \in {1, MaxTransactions + 1}, req \in UpdateTransactionInputs : TransactionUpdate(id, req)
    \/ \E id \in 1..(MaxTransactions + 1), now \in NowInputs, fault \in FaultPoints :
          /\ fault # 0 => id = 1
          /\ TransactionDelete(id, now, fault)

Spec == Init /\ [][Next]_vars

\* a call that returned an error left every table as it was
FailedCallKeepsStore ==
    [][last'.err # "" => UNCHANGED <<accounts, transactions, journal>>]_vars

\* ------------------------------------------------- postings side by side
\* ProcessTransaction run by several requests at once against PostgreSQL at
\* its default isolation level, READ COMMITTED (no isolation level, no
\* SELECT ... FOR UPDATE and no version column appears in the code): the rows
\* a unit of work has written stay invisible to the others until it commits;
\* a SELECT reads the rows committed so far and the unit's own writes and
\* takes no lock; an UPDATE waits while another open unit of work has
\* written the same row and then overwrites it.  accounts, transactions and
\* journal are the committed rows; procs[p] holds request p's position, the
\* account row it last read and the rows it has written.  Transaction ids
\* are numbered in commit order.

\* requests that touch account 1, with no category id that is an account's
ConcurrentPosts ==
    { <<Request("EXPENSE", 1, 1, 0, MaxAccounts + 1), 1>>,
      <<[Request("INCOME", 2, 1, 0, MaxAccounts + 1) EXCEPT !.ExchangeRate = 2], 1>>,
      <<Request("TRANSFER", 1, 1, 2, 0), 1>>,
      <<Request("TRANSFER", 2, 2, 1, 0), 2>> }

\* the accounts there are when the postings start, each as AccountCreate
\* leaves it
OpeningAccounts ==
    [a \in 1..MaxAccounts |->
        [UserID |-> 1, Name |-> "n", AccountType |-> "BANK", CurrencyID |-> 1,
         Balance |-> 5, IsActive |-> TRUE]]

InitConcurrent ==
    /\ engine \in Engines
    /\ accounts = OpeningAccounts
    /\ transactions = <<>>
    /\ journal = <<>>
    /\ reversals = <<>>
    /\ ops = 0
    /\ last = [op |-> "none", err |-> "", id |-> 0, n |-> 0, pre |-> <<>>]
    /\ procs = [p \in Procs |-> Idle]

\* updateRealAccountBalances(dbTx, tx): the calls of applyBalanceChange, in order
realAccountChanges(tx) ==
    CASE tx.Type = "EXPENSE" -> << <<tx.AccountFromID, -tx.Amount>> >>
      [] tx.Type = "INCOME" -> << <<tx.AccountFromID, tx.Amount>> >>
      [] tx.Type = "TRANSFER" -> << <<tx.AccountFromID, -tx.Amount>>,
                                    <<tx.AccountToID, tx.Amount>> >>

\* updateAccountBalances(dbTx, entries): the orders in which Go may range
\* over the accountUpdates map
entryAccountChanges(entries) ==
    LET ids == { entries[i].AccountID : i \in 1..Len(entries) }
        n == Cardinality(ids)
    IN { [i \in 1..n |-> <<order[i], accountUpdates(entries, order[i])>>] :
            order \in { o \in [1..n -> ids] : \A i, j \in 1..n : o[i] = o[j] => i = j } }

\* the open units of work
Open(p) == procs[p].pc \in {"created", "entries", "read", "failed"}

\* the row of account id as request p's SELECT returns it
Row(p, id) ==
    IF \E w \in procs[p].writes : w[1] = id
    THEN (CHOOSE w \in procs[p].writes : w[1] = id)[2]
    ELSE accounts[id]

\* request p's UPDATE of account id waits for request q
WaitsFor(p, q) ==
    /\ p # q
    /\ procs[p].pc = "read"
    /\ Open(q)
    /\ \E w \in procs[q].writes : w[1] = procs[p].todo[1][1]

RECURSIVE WaitsChain(_, _, _)
WaitsChain(p, q, n) ==
    /\ n > 0
    /\ \/ WaitsFor(p, q)
       \/ \E r \in Procs : WaitsFor(p, r) /\ WaitsChain(r, q, n - 1)

\* what a step of request p leaves of the request record
Record(p, err) ==
    [op |-> "post", err |-> err, id |-> 0, n |-> 0, pre |-> <<>>]

\* transactionService.Create up to dbTx.Create(tx): ToModel, Validate, BEGIN,
\* INSERT of the transaction row
PostCreate(p, req, userID) ==
    LET tx == ToModel(req, userID)
    IN /\ procs[p].pc = "idle"
       /\ \A q \in Procs : q < p => procs[q].pc # "idle"
       /\ tx.TransactionDate # -1
       /\ Validate(tx) = ""
       /\ procs' = [procs EXCEPT ![p] = [Idle EXCEPT !.pc = "created", !.tx = tx]]
       /\ UNCHANGED <<engine, accounts, transactions, journal, reversals, ops, last>>

\* (variant) the entries are inserted through the connection pool, outside
\* the unit of work
PostEntriesUnscoped(p) ==
    LET tx == procs[p].tx
        gen == generateJournalEntries(tx, Len(transactions) + 1)
    IN /\ procs[p].pc = "created"
       /\ gen.err = "" /\ validateBalance(gen.entries) = ""
       /\ \E todo \in IF engine = "real" THEN {realAccountChanges(tx)}
                      ELSE entryAccountChanges(gen.entries) :
             procs' = [procs EXCEPT ![p].pc = "entries", ![p].todo = todo]
       /\ journal' = journal \o gen.entries
       /\ UNCHANGED <<engine, accounts, transactions, reversals, ops, last>>

\* generateJournalEntries, validateBalance, dbTx.Create(&entries): INSERT of
\* the two entries
PostEntries(p) ==
    LET tx == procs[p].tx
        gen == generateJournalEntries(tx, 0)
    IN /\ procs[p].pc = "created"
       /\ gen.err = "" /\ validateBalance(gen.entries) = ""
       /\ \E todo \in IF engine = "real" THEN {realAccountChanges(tx)}
                      ELSE entryAccountChanges(gen.entries) :
             procs' = [procs EXCEPT ![p].pc = "entries", ![p].todo = todo]
       /\ UNCHANGED <<engine, accounts, transactions, journal, reversals, ops, last>>

\* dbTx.First(&account, accountID) of the next balance change
PostRead(p) ==
    LET id == procs[p].todo[1][1]
    IN /\ procs[p].pc = "entries"
       /\ procs[p].todo # <<>>
       /\ procs' = IF id \in 1..Len(accounts)
                   THEN [procs EXCEPT ![p].pc = "read", ![p].account = Row(p, id)]
                   ELSE IF engine = "real"
                   THEN [procs EXCEPT ![p].pc = "failed"]      \* account not found
                   ELSE [procs EXCEPT ![p].todo = Tail(@)]      \* continue
       /\ UNCHANGED <<engine, accounts, transactions, journal, reversals, ops, last>>

\* account.UpdateBalance(change); dbTx.Save(&account): UPDATE of the row
\* with the balance computed from the row read
PostSave(p) ==
    LET id == procs[p].todo[1][1]
        change == procs[p].todo[1][2]
        row == UpdateBalance(procs[p].account, change)
    IN /\ procs[p].pc = "read"
       /\ \A q \in Procs : ~WaitsFor(p, q)
       /\ procs' = [procs EXCEPT ![p].pc = "entries",
                                 ![p].todo = Tail(@),
                                 ![p].account = <<>>,
                                 ![p].writes = { w \in @ : w[1] # id } \cup {<<id, row>>}]
       /\ UNCHANGED <<engine, accounts, transactions, journal, reversals, ops, last>>

\* PostgreSQL ends a cycle of waiting UPDATEs by failing one of them
PostDeadlock(p) ==
    /\ WaitsChain(p, p, MaxProcs)
    /\ procs' = [procs EXCEPT ![p].pc = "failed"]
    /\ UNCHANGED <<engine, accounts, transactions, journal, reversals, ops, last>>

\* db.Transaction when fn returned nil: COMMIT
PostCommit(p) ==
    LET tx == procs[p].tx
        id == Len(transactions) + 1
    IN /\ procs[p].pc = "entries"
       /\ procs[p].todo = <<>>
       /\ transactions' = Append(transactions, tx)
       /\ journal' = journal \o generateJournalEntries(tx, id).entries
       /\ accounts' = [a \in 1..Len(accounts) |-> Row(p, a)]
       /\ reversals' = Append(reversals, 0)
       /\ ops' = ops + 1
       /\ last' = [Record(p, "") EXCEPT !.id = id, !.pre = Balances(accounts)]
       /\ procs' = [procs EXCEPT ![p].pc = "committed", ![p].writes = {}]
       /\ UNCHANGED engine

\* db.Transaction when fn returned an error: ROLLBACK
PostRollback(p) ==
    /\ procs[p].pc = "failed"
    /\ procs' = [procs EXCEPT ![p].pc = "rolled_back", ![p].writes = {}]
    /\ last' = Record(p, "StoreFailure")
    /\ UNCHANGED <<engine, accounts, transactions, journal, reversals, ops>>

NextConcurrent ==
    \/ \E p \in Procs, r \in ConcurrentPosts : PostCreate(p, r[1], r[2])
    \/ \E p \in Procs : PostEntries(p)
    \/ \E p \in Procs : PostRead(p)
    \/ \E p \in Procs : PostSave(p)
    \/ \E p \in Procs : PostDeadlock(p)
    \/ \E p \in Procs : PostCommit(p)
    \/ \E p \in Procs : PostRollback(p)

SpecConcurrent == InitConcurrent /\ [][NextConcurrent]_vars

\* ------------------------------------------------ reversals side by side
\* ReverseTransaction run by several requests at once for a transaction that
\* was posted before.  FindByID and FindByTransaction go through the
\* repositories' own connection and read the committed rows; the reversing
\* entries, the balance changes and the reconciled mark are written inside
\* the unit of work.

\* the ledger after one posting on the opening accounts
PostedOnce(eng, r) ==
    ProcessTransaction([accounts |-> OpeningAccounts, transactions |-> <<>>,
                        journal |-> <<>>],
                       ToModel(r[1], r[2]), 0, eng).st

InitReverse ==
    /\ engine \in Engines
    /\ \E r \in ConcurrentPosts :
          /\ accounts = PostedOnce(engine, r).accounts
          /\ transactions = PostedOnce(engine, r).transactions
          /\ journal = PostedOnce(engine, r).journal
    /\ reversals = <<0>>
    /\ ops = 1
    /\ last = [op |-> "none", err |-> "", id |-> 0, n |-> 0, pre |-> <<>>]
    /\ procs = [p \in Procs |-> Idle]

\* reverseRealAccountBalances(dbTx, tx): the calls of applyBalanceChange, in
\* order
reverseRealAccountChanges(tx) ==
    CASE tx.Type = "EXPENSE" -> << <<tx.AccountFromID, tx.Amount>> >>
      [] tx.Type = "INCOME" -> << <<tx.AccountFromID, -tx.Amount>> >>
      [] tx.Type = "TRANSFER" -> << <<tx.AccountFromID, tx.Amount>>,
                                    <<tx.AccountToID, -tx.Amount>> >>

\* BEGIN; transactionRepository.FindByID(transactionID): the committed row
\* with its id
ReverseFind(p, transactionID) ==
    /\ procs[p].pc = "idle"
    /\ \A q \in Procs : q < p => procs[q].pc # "idle"
    /\ transactionID \in 1..Len(transactions)
    /\ procs' = [procs EXCEPT ![p] =
                    [Idle EXCEPT !.pc = "found",
                                 !.tx = [ID |-> transactionID] @@ transactions[transactionID]]]
    /\ UNCHANGED <<engine, accounts, transactions, journal, reversals, ops, last>>

\* journalEntryRepository.FindByTransaction(transactionID): the committed
\* entries; the loop building the reversing entries; dbTx.Create of them,
\* which fails on an empty slice
ReverseEntries(p, now) ==
    LET tx == procs[p].tx
        rev == reversingEntries(FindByTransaction(journal, tx.ID), tx.ID, now)
    IN /\ procs[p].pc = "found"
       /\ IF rev = <<>>
          THEN procs' = [procs EXCEPT ![p].pc = "failed"]
          ELSE \E todo \in IF engine = "real" THEN {reverseRealAccountChanges(tx)}
                           ELSE entryAccountChanges(rev) :
                  procs' = [procs EXCEPT ![p].pc = "entries", ![p].todo = todo,
                                         ![p].entries = rev]
       /\ UNCHANGED <<engine, accounts, transactions, journal, reversals, ops, last>>

\* tx.IsReconciled = true; dbTx.Save(tx): UPDATE of the transaction row with
\* the row read by FindByID; db.Transaction when fn returned nil: COMMIT
ReverseCommit(p) ==
    LET tx == procs[p].tx
        row == [f \in DOMAIN tx \ {"ID"} |-> IF f = "IsReconciled" THEN TRUE ELSE tx[f]]
    IN /\ procs[p].pc = "entries"
       /\ procs[p].todo = <<>>
       /\ procs[p].entries # <<>>
       /\ transactions' = [transactions EXCEPT ![tx.ID] = row]
       /\ journal' = journal \o procs[p].entries
       /\ accounts' = [a \in 1..Len(accounts) |-> Row(p, a)]
       /\ reversals' = [reversals EXCEPT ![tx.ID] = @ + 1]
       /\ ops' = ops + 1
       /\ last' = [op |-> "reverse", err |-> "", id |-> tx.ID, n |-> 0, pre |-> <<>>]
       /\ procs' = [procs EXCEPT ![p].pc = "committed", ![p].writes = {}]
       /\ UNCHANGED engine

\* db.Transaction when fn returned an error: ROLLBACK
ReverseRollback(p) ==
    /\ procs[p].pc = "failed"
    /\ procs' = [procs EXCEPT ![p].pc = "rolled_back", ![p].writes = {}]
    /\ last' = [op |-> "reverse", err |-> "StoreFailure", id |-> 0, n |-> 0, pre |-> <<>>]
    /\ UNCHANGED <<engine, accounts, transactions, journal, reversals, ops>>

NextReverse ==
    \/ \E p \in Procs, id \in 1..MaxTransactions : ReverseFind(p, id)
    \/ \E p \in Procs, now \in NowInputs : ReverseEntries(p, now)
    \/ \E p \in Procs : PostRead(p)
    \/ \E p \in Procs : PostSave(p)
    \/ \E p \in Procs : PostDeadlock(p)
    \/ \E p \in Procs : ReverseCommit(p)
    \/ \E p \in Procs : ReverseRollback(p)

SpecReverse == InitReverse /\ [][NextReverse]_vars

\* ------------------------------------------- dashboard beside postings
\* GetDashboard answered while postings commit.  Each repository call of
\* GetDashboard is a statement of its own on the pooled connection and reads
\* the rows committed when it runs; a posting is seen from outside as its
\* commit.  procs[p].response holds the figures read so far, procs[p].todo
\* the turns of the loop of calculateRunway still to run.

\* calculateRunway after its loop
runwayAfterLoop(availableFunds, sum) ==
    IF sum.monthsWithData = 0 \/ sum.totalExpenses = 0
    THEN [runwayMonths |-> [num |-> 0, den |-> 1], runwayDays |-> 0,
          avgMonthlyExpenses |-> [num |-> 0, den |-> 1]]
    ELSE [runwayMonths |-> [num |-> availableFunds * sum.monthsWithData,
                            den |-> sum.totalExpenses],
          runwayDays |-> Truncate(availableFunds * sum.monthsWithData * 30,
                                  sum.totalExpenses),
          avgMonthlyExpenses |-> [num |-> sum.totalExpenses,
                                  den |-> sum.monthsWithData]]

\* a step of request p's GetDashboard that reads and writes no row
Reads(p, pc, response, todo) ==
    /\ procs' = [procs EXCEPT ![p].pc = pc, ![p].response = response, ![p].todo = todo]
    /\ UNCHANGED <<engine, accounts, transactions, journal, reversals, ops, last>>

\* now := time.Now(); accountRepo.GetTotalAssets(userID)
DashboardTotalAssets(p, userID, now) ==
    /\ \A q \in Procs : procs[q].pc = "idle"
    /\ Reads(p, "assets",
             [UserID |-> userID, AsOf |-> now,
              TotalAssets |-> GetTotalAssets(accounts, userID)], <<>>)

\* accountRepo.GetTotalLiabilities(userID); netWorth
DashboardTotalLiabilities(p) ==
    LET r == procs[p].response
        totalLiabilities == GetTotalLiabilities(accounts, r.UserID)
    IN /\ procs[p].pc = "assets"
       /\ Reads(p, "liabilities",
                [TotalLiabilities |-> totalLiabilities,
                 NetWorth |-> r.TotalAssets - totalLiabilities] @@ r, <<>>)

\* accountRepo.GetLiquidAssets(userID)
DashboardLiquidAssets(p) ==
    LET r == procs[p].response
    IN /\ procs[p].pc = "liabilities"
       /\ Reads(p, "liquid",
                [LiquidAssets |-> GetLiquidAssets(accounts, r.UserID)] @@ r, <<>>)

\* transactionRepo.GetMonthlyStats(userID, currentMonth, currentYear)
DashboardMonthlyStats(p) ==
    LET r == procs[p].response
        stats == GetMonthlyStats(transactions, r.UserID, MonthOf(r.AsOf))
    IN /\ procs[p].pc = "liquid"
       /\ Reads(p, "stats",
                [MonthlyIncome |-> stats.income, MonthlyExpenses |-> stats.expenses,
                 MonthlyNetCashFlow |-> stats.income - stats.expenses,
                 totalExpenses |-> 0, monthsWithData |-> 0] @@ r,
                <<0, 1, 2>>)

\* one turn of the loop of calculateRunway: GetMonthlyStats of the month of
\* now.AddDate(0, -i, 0); after the last turn, the runway
DashboardRunway(p) ==
    LET r == procs[p].response
        i == procs[p].todo[1]
        expenses == GetMonthlyStats(transactions, r.UserID,
                                    MonthOf(AddDate(r.AsOf, -i))).expenses
        sum == IF expenses # 0
               THEN [totalExpenses |-> r.totalExpenses + expenses,
                     monthsWithData |-> r.monthsWithData + 1]
               ELSE [totalExpenses |-> r.totalExpenses,
                     monthsWithData |-> r.monthsWithData]
        run == runwayAfterLoop(r.LiquidAssets - r.TotalLiabilities, sum)
    IN /\ procs[p].pc = "stats"
       /\ procs[p].todo # <<>>
       /\ IF Len(procs[p].todo) > 1
          THEN Reads(p, "stats", sum @@ r, Tail(procs[p].todo))
          ELSE Reads(p, "runway",
                     [Runway |-> run.runwayMonths, RunwayDays |-> run.runwayDays,
                      AverageMonthlyExpenses |-> run.avgMonthlyExpenses] @@ sum @@ r,
                     <<>>)

\* accountRepo.FindByUserID(userID); the response is returned
DashboardAccountBalances(p) ==
    LET r == procs[p].response
    IN /\ procs[p].pc = "runway"
       /\ Reads(p, "answered",
                [AccountBalances |-> FindByUserID(accounts, r.UserID)] @@ r, <<>>)

InitReader == InitConcurrent

NextReader ==
    \/ \E r \in ConcurrentPosts : TransactionCreate(r[1], r[2], 0)
    \/ \E p \in Procs, userID \in Users, now \in NowInputs :
          DashboardTotalAssets(p, userID, now)
    \/ \E p \in Procs : DashboardTotalLiabilities(p)
    \/ \E p \in Procs : DashboardLiquidAssets(p)
    \/ \E p \in Procs : DashboardMonthlyStats(p)
    \/ \E p \in Procs : DashboardRunway(p)
    \/ \E p \in Procs : DashboardAccountBalances(p)

SpecReader == InitReader /\ [][NextReader]_vars

\* ------------------------------------------------------- the list query
\* GetByUser run on a transaction table as a run of posts and updates
\* leaves it: row i is the post of one of three requests by turns, every
\* fifth one marked reconciled, every fortieth one of user 2; the accounts
\* named do not exist, which updateAccountBalances tolerates.
TableRow(i) ==
    LET req == CASE i % 3 = 0 -> Request("EXPENSE", 1, 1, 0, MaxAccounts + 1)
                 [] i % 3 = 1 -> [Request("INCOME", 2, 2, 0, MaxAccounts + 1) EXCEPT
                                      !.TransactionDate = "2026-02-01T00:00:00Z"]
                 [] OTHER -> Request("TRANSFER", 1, 1, 2, 0)
    IN [ToModel(req, IF i % 40 = 0 THEN 2 ELSE 1) EXCEPT !.IsReconciled = (i % 5 = 0)]

TransactionTable(n) == [i \in 1..n |-> TableRow(i)]

\* the two entries of each row, in the order of the posts
JournalOf(txs) ==
    [k \in 1..(2 * Len(txs)) |->
        generateJournalEntries(txs[(k + 1) \div 2], (k + 1) \div 2).entries[2 - (k % 2)]]

TableSizes == {0, 3, MaxRows}

InitList ==
    /\ engine = "entries"
    /\ accounts = <<>>
    /\ transactions \in { TransactionTable(n) : n \in TableSizes }
    /\ journal = JournalOf(transactions)
    /\ reversals = [i \in 1..Len(transactions) |-> 0]
    /\ ops = 0
    /\ last = [op |-> "none", err |-> "", id |-> 0, n |-> 0, pre |-> <<>>]
    /\ procs = [p \in Procs |-> Idle]

\* TransactionHandler.GetTransactions -> transactionService.GetByUser
\* (one query per run: a query changes no table, so a second one would see
\* what the first saw)
List(userID, filters) ==
    /\ last.op = "none"
    /\ last' = [op |-> "list", err |-> "", id |-> 0, n |-> 0, pre |-> <<>>,
                userID |-> userID, filters |-> filters,
                res |-> GetByUser(transactions, userID, filters)]
    /\ UNCHANGED <<engine, accounts, transactions, journal, reversals, ops, procs>>

NextList == \E userID \in Users, filters \in ListFilters : List(userID, filters)

SpecList == InitList /\ [][NextList]_vars

\* -------------------------------------------------------- the dashboard
\* GetDashboard and CalculateRunway run on account and transaction tables as
\* creates, updates, soft deletes and posts leave them: accounts of every
\* asset kind and credit cards, active or not, of the asking user and of
\* another one.
DashboardAccountRows ==
    { [UserID |-> 1, Name |-> "n", AccountType |-> kind, CurrencyID |-> 1,
       Balance |-> IF kind = "CREDIT_CARD" THEN 1 ELSE 5, IsActive |-> active] :
         kind \in {"BANK", "CASH", "SAVINGS", "INVESTMENT", "CREDIT_CARD"},
         active \in BOOLEAN }
    \cup { [UserID |-> 2, Name |-> "n", AccountType |-> "BANK", CurrencyID |-> 1,
            Balance |-> 5, IsActive |-> TRUE] }

DashboardAccounts ==
    UNION { [1..n -> DashboardAccountRows] : n \in 0..MaxAccounts }

DashboardTransactions ==
    { <<>>, TransactionTable(3),
      << ToModel(Request("EXPENSE", 4, 1, 0, MaxAccounts + 1), 1) >> }

InitDashboard ==
    /\ engine = "entries"
    /\ accounts \in DashboardAccounts
    /\ transactions \in DashboardTransactions
    /\ journal = JournalOf(transactions)
    /\ reversals = [i \in 1..Len(transactions) |-> 0]
    /\ ops = 0
    /\ last = [op |-> "none", err |-> "", id |-> 0, n |-> 0, pre |-> <<>>]
    /\ procs = [p \in Procs |-> Idle]

\* DashboardHandler.GetDashboard -> dashboardService.GetDashboard
Dashboard(userID, now) ==
    /\ last.op = "none"
    /\ last' = [op |-> "dashboard", err |-> "", id |-> 0, n |-> 0, pre |-> <<>>,
                userID |-> userID, now |-> now,
                res |-> GetDashboard(accounts, transactions, userID, now)]
    /\ UNCHANGED <<engine, accounts, transactions, journal, reversals, ops, procs>>

\* DashboardHandler.GetRunway -> dashboardService.CalculateRunway
Runway(userID, now) ==
    /\ last.op = "none"
    /\ last' = [op |-> "runway", err |-> "", id |-> 0, n |-> 0, pre |-> <<>>,
                userID |-> userID, now |-> now, months |-> monthsRead(now),
                res |-> CalculateRunway(accounts, transactions, userID, now)]
    /\ UNCHANGED <<engine, accounts, transactions, journal, reversals, ops, procs>>

NextDashboard ==
    \/ \E userID \in Users, now \in QueryTimes : Dashboard(userID, now)
    \/ \E userID \in Users, now \in QueryTimes : Runway(userID, now)

SpecDashboard == InitDashboard /\ [][NextDashboard]_vars

\* ------------------------------------------------------------ properties
\* the call that a step completes, read from the record it leaves
Posted == last'.op = "post" /\ last'.err = ""

Reversed == last'.op \in {"reverse", "post_reverse"} /\ last'.err = ""

\* the journal entries a step appends
Appended == SubSeq(journal', Len(journal) + 1, Len(journal'))

Exists(accountID) == accountID \in 1..Len(accounts)

\* C1: in every reachable state, for every transaction the amounts of its
\* DEBIT entries and of its CREDIT entries sum to the same total: the balance
\* verification reports difference 0 and balanced.
C1_EntriesBalance ==
    \A t \in 1..Len(transactions) :
        LET v == BalanceVerification(journal, t)
        IN v.Difference = 0 /\ v.IsBalanced /\ v.TotalDebits = v.TotalCredits

\* a transaction that was posted and then reversed twice over
C1_Witness ==
    \E t \in 1..Len(transactions) :
        reversals[t] = 2 /\ BalanceVerification(journal, t).TotalDebits = 4 * transactions[t].Amount

\* C2: when a reversal directly follows the post of the same transaction,
\* every account balance is what it was before the post.
C2_PostReverseRestores ==
    last.op = "post_reverse" => Balances(accounts) = last.pre

\* a transfer between two accounts, posted and reversed at once
C2_Witness ==
    /\ last.op = "post_reverse"
    /\ engine = "real"
    /\ transactions[last.id].Type = "TRANSFER"
    /\ transactions[last.id].AccountFromID # transactions[last.id].AccountToID
    /\ Len(last.pre) = 2

\* C3: a reversal of a transaction that was already reversed fails with
\* AlreadyReversed, appends no journal entry and changes no account balance.
C3_SecondReverseRejected ==
    [][ \A id \in 1..Len(reversals), now \in NowInputs :
          (reversals[id] >= 1 /\ TransactionDelete(id, now, 0))
              => /\ last'.err = "AlreadyReversed"
                 /\ journal' = journal
                 /\ Balances(accounts') = Balances(accounts) ]_vars

\* C4: a post one of whose steps fails after the unit of work began (the
\* source or destination account does not exist, the kind has no entry rule,
\* the insert of the transaction or of the entries fails) returns an error
\* and leaves no transaction, no journal entry and no balance change.
C4_FailedStepLeavesNoTrace ==
    [][ \A p \in PostInputs :
          LET tx == ToModel(p[1], p[2])
              stepFails ==
                  \/ ~Exists(tx.AccountFromID)
                  \/ tx.Type = "TRANSFER" /\ ~Exists(tx.AccountToID)
                  \/ tx.Type \notin {"INCOME", "EXPENSE", "TRANSFER"}
                  \/ p[3] \in {1, 2}
          IN (tx.TransactionDate # -1 /\ Validate(tx) = "" /\ stepFails
              /\ TransactionCreate(p[1], p[2], p[3]))
                 => last'.err # "" /\ UNCHANGED <<accounts, transactions, journal>> ]_vars

\* C5: a successful post appends exactly two entries carrying the
\* transaction's id, owner, amount and date: EXPENSE a DEBIT on the category
\* and a CREDIT on account_from, whose balance falls by the amount; INCOME a
\* DEBIT on account_from, whose balance rises by the amount, and a CREDIT on
\* the category; TRANSFER a DEBIT on account_to and a CREDIT on account_from,
\* the amount moving from the one balance to the other.
C5_PostEffect ==
    [][ Posted =>
          LET tx == transactions'[last'.id]
              from == tx.AccountFromID
              to == tx.AccountToID
              Delta(a) == accounts'[a].Balance - accounts[a].Balance
              debitOn == IF tx.Type = "EXPENSE" THEN tx.CategoryID
                         ELSE IF tx.Type = "INCOME" THEN from ELSE to
              creditOn == IF tx.Type = "EXPENSE" THEN from
                          ELSE IF tx.Type = "INCOME" THEN tx.CategoryID ELSE from
          IN /\ tx.Type \in {"EXPENSE", "INCOME", "TRANSFER"}
             /\ Len(Appended) = 2
             /\ \A i \in 1..2 : /\ Appended[i].TransactionID = last'.id
                                /\ Appended[i].UserID = tx.UserID
                                /\ Appended[i].Amount = tx.Amount
                                /\ Appended[i].EntryDate = tx.TransactionDate
             /\ \E i \in 1..2 : Appended[i].DebitOrCredit = "DEBIT" /\ Appended[i].AccountID = debitOn
             /\ \E i \in 1..2 : Appended[i].DebitOrCredit = "CREDIT" /\ Appended[i].AccountID = creditOn
             /\ Exists(from)
             /\ tx.Type = "EXPENSE" => Delta(from) = -tx.Amount
             /\ tx.Type = "INCOME" => Delta(from) = tx.Amount
             /\ tx.Type = "TRANSFER" =>
                   /\ Exists(to)
                   /\ IF from = to THEN Delta(from) = 0
                      ELSE Delta(from) = -tx.Amount /\ Delta(to) = tx.Amount ]_vars

\* C6: a post or a reversal of an INCOME or EXPENSE transaction changes the
\* balance of no account other than account_from, whatever the category id.
C6_OnlyAccountFromChanges ==
    [][ (Posted \/ Reversed) /\ transactions'[last'.id].Type \in {"INCOME", "EXPENSE"}
          => \A a \in 1..Len(accounts) :
                a # transactions'[last'.id].AccountFromID
                    => accounts'[a].Balance = accounts[a].Balance ]_vars

\* C7: in every reachable state the balance of every real account equals the
\* DEBIT amounts minus the CREDIT amounts of the journal entries on it.
C7_BalanceIsEntrySum ==
    \A a \in 1..Len(accounts) :
        accounts[a].AccountType # "CATEGORY"
            => accounts[a].Balance = GetAccountBalance(journal, a)

\* C8: no step modifies or removes a journal entry: after every step the
\* journal begins with the journal as it was before the step.
C8_JournalAppendOnly ==
    [][ /\ Len(journal') >= Len(journal)
        /\ SubSeq(journal', 1, Len(journal)) = journal ]_vars

\* an account soft-deleted and a transaction updated or reversed, entries kept
C8_Witness ==
    /\ last.op = "account_delete" /\ last.err = ""
    /\ \E t \in 1..Len(transactions) : reversals[t] >= 1 /\ Len(FindByTransaction(journal, t)) = 4

\* C9: a successful reversal of a transaction not reversed before appends,
\* for each of its two original entries, exactly one entry of the same
\* transaction, account, amount and owner, on the opposite side, described
\* as "REVERSAL:" followed by the original description; the transaction then
\* has four entries and its IsReconciled flag is set.
C9_ReversalEntries ==
    [][ (Reversed /\ reversals[last'.id] = 0) =>
          LET id == last'.id
              orig == FindByTransaction(journal, id)
              Mirrors(n, o) ==
                  /\ n.TransactionID = id /\ o.TransactionID = id
                  /\ n.AccountID = o.AccountID
                  /\ n.Amount = o.Amount
                  /\ n.UserID = o.UserID
                  /\ n.DebitOrCredit # o.DebitOrCredit
                  /\ n.DebitOrCredit \in {"DEBIT", "CREDIT"}
                  /\ n.Description = <<"REVERSAL:">> \o o.Description
          IN /\ Len(orig) = 2
             /\ Len(Appended) = 2
             /\ \E f \in [1..2 -> 1..2] :
                   f[1] # f[2] /\ \A i \in 1..2 : Mirrors(Appended[f[i]], orig[i])
             /\ Len(FindByTransaction(journal', id)) = 4
             /\ transactions'[id].IsReconciled ]_vars

\* a first reversal done: four entries and the flag set
C9_Witness ==
    /\ last.op \in {"reverse", "post_reverse"} /\ last.err = ""
    /\ reversals[last.id] = 1
    /\ Len(FindByTransaction(journal, last.id)) = 4
    /\ transactions[last.id].IsReconciled

\* what the rules of the posting boundary refuse
Refused(req) ==
    \/ req.Amount <= 0
    \/ req.Description = <<>>
    \/ ParseDate(req.TransactionDate) = 0
    \/ req.ExchangeRate < 0
    \/ req.Type \notin TransactionTypeCatalog
    \/ req.Type = "TRANSFER" /\ (req.AccountToID = 0 \/ req.CategoryID # 0)
    \/ req.Type \in {"INCOME", "EXPENSE"} /\ (req.CategoryID = 0 \/ req.AccountToID # 0)

\* C10: a post of a request that breaks a rule of the posting boundary is
\* rejected with a validation error before any store call, and the store is
\* as it was.
C10_RejectedBeforeStore ==
    [][ \A p \in PostInputs :
          (Refused(p[1]) /\ ParseDate(p[1].TransactionDate) # -1
           /\ TransactionCreate(p[1], p[2], p[3]))
              => /\ last'.err = "ValidationError"
                 /\ last'.n = 0
                 /\ UNCHANGED <<accounts, transactions, journal>> ]_vars

\* C11: a post or a reversal of a transaction of owner u changes the balance
\* of no account that belongs to another user.
C11_OwnAccountsOnly ==
    [][ (Posted \/ Reversed) =>
          \A a \in 1..Len(accounts) :
              accounts[a].UserID # transactions'[last'.id].UserID
                  => accounts'[a].Balance = accounts[a].Balance ]_vars

\* C12: an account update and an account delete leave every balance as it
\* was, whatever the request.
C12_MaintenanceKeepsBalance ==
    [][ last'.op \in {"account_update", "account_delete"}
            => Balances(accounts') = Balances(accounts) ]_vars

\* C13: an update that names a new amount is refused with ImmutableField, and
\* every update leaves the amount, kind, accounts, category and exchange rate
\* of every transaction as posted.
C13_ImmutableFields ==
    [][ /\ \A id \in 1..Len(transactions), req \in UpdateTransactionInputs :
              (req.Amount # Nil /\ TransactionUpdate(id, req))
                  => last'.err = "ImmutableField"
        /\ last'.op = "update" =>
              /\ Len(transactions') = Len(transactions)
              /\ \A id \in 1..Len(transactions) :
                    /\ transactions'[id].Amount = transactions[id].Amount
                    /\ transactions'[id].Type = transactions[id].Type
                    /\ transactions'[id].AccountFromID = transactions[id].AccountFromID
                    /\ transactions'[id].AccountToID = transactions[id].AccountToID
                    /\ transactions'[id].CategoryID = transactions[id].CategoryID
                    /\ transactions'[id].ExchangeRate = transactions[id].ExchangeRate ]_vars

\* C14: when an INCOME or EXPENSE was posted and reversed at once, the
\* monthly income and expenses of every user and month are what they were
\* before the post.
C14_StatsSkipReversed ==
    last.op = "post_reverse" =>
        LET before == SubSeq(transactions, 1, last.id - 1)
        IN \A u \in Users, month \in 1..3 :
              /\ GetMonthlyStats(transactions, u, month).expenses
                    = GetMonthlyStats(before, u, month).expenses
              /\ GetMonthlyStats(transactions, u, month).income
                    = GetMonthlyStats(before, u, month).income

\* the expenses of user u in the month of now and the two months before it
RecentExpenses(u, now) ==
    [ k \in 0..2 |-> GetMonthlyStats(transactions, u, MonthOf(now) - k).expenses ]

\* C15: when the current month and the two before it have no expenses, the
\* runway is 0 months and 0 days with status HEALTHY and no warning.
C15_RunwayWithoutExpenses ==
    \A u \in Users, now \in QueryTimes :
        (\A k \in 0..2 : RecentExpenses(u, now)[k] = 0) =>
            LET r == CalculateRunway(accounts, transactions, u, now)
            IN /\ r.RunwayMonths.num = 0
               /\ r.RunwayDays = 0
               /\ r.Status = "HEALTHY"
               /\ ~r.Warning

\* C16: when one of the three months has expenses, with m the number of
\* such months and total the sum of their expenses, available is liquid
\* assets minus liabilities, the average is total / m, the runway is
\* available / average, and the status is CRITICAL below 3 months, WARNING
\* below 6, HEALTHY otherwise.
C16_RunwayWithExpenses ==
    \A u \in Users, now \in QueryTimes :
        LET e == RecentExpenses(u, now)
            m == Cardinality({ k \in 0..2 : e[k] # 0 })
            total == e[0] + e[1] + e[2]
            available == GetLiquidAssets(accounts, u) - GetTotalLiabilities(accounts, u)
            r == CalculateRunway(accounts, transactions, u, now)
        IN m > 0 =>
              /\ r.AvailableFunds = available
              /\ r.AverageMonthlyExpenses.num * m = total * r.AverageMonthlyExpenses.den
              /\ r.RunwayMonths.num * total = available * m * r.RunwayMonths.den
              /\ r.Status = IF available * m < 3 * total THEN "CRITICAL"
                            ELSE IF available * m < 6 * total THEN "WARNING"
                            ELSE "HEALTHY"

IsAsset(a) == a.AccountType \in {"BANK", "CASH", "SAVINGS", "INVESTMENT"}

\* C19: a successful TRANSFER between two asset accounts of its owner leaves
\* the owner's total assets plus total liabilities as they were.
C19_TransferKeepsTotals ==
    [][ Posted =>
          LET tx == transactions'[last'.id]
              u == tx.UserID
          IN (/\ tx.Type = "TRANSFER"
              /\ Exists(tx.AccountFromID) /\ Exists(tx.AccountToID)
              /\ IsAsset(accounts[tx.AccountFromID]) /\ IsAsset(accounts[tx.AccountToID])
              /\ accounts[tx.AccountFromID].UserID = u
              /\ accounts[tx.AccountToID].UserID = u)
             => GetTotalAssets(accounts', u) + GetTotalLiabilities(accounts', u)
                    = GetTotalAssets(accounts, u) + GetTotalLiabilities(accounts, u) ]_vars

\* the valid requests for a TRANSFER of an account onto itself, no store call
\* failing
SelfTransferPosts ==
    { p \in PostInputs :
        LET tx == ToModel(p[1], p[2])
        IN /\ tx.Type = "TRANSFER" /\ tx.AccountToID = tx.AccountFromID
           /\ p[3] = 0 /\ tx.Amount > 0 /\ tx.TransactionDate > 0 }

\* C20: a TRANSFER from an existing account to itself passes validation and
\* is posted; its DEBIT and its CREDIT entry are recorded on that account,
\* and the post, and a reversal of it, leave the account's balance as it was.
C20_SelfTransfer ==
    [][ /\ \A p \in SelfTransferPosts :
              LET tx == ToModel(p[1], p[2])
              IN (Exists(tx.AccountFromID) /\ TransactionCreate(p[1], p[2], p[3]))
                 => /\ last'.err = ""
                    /\ Len(Appended) = 2
                    /\ \A i \in 1..2 : Appended[i].AccountID = tx.AccountFromID
                    /\ {Appended[1].DebitOrCredit, Appended[2].DebitOrCredit}
                          = {"DEBIT", "CREDIT"}
        /\ ((Posted \/ Reversed)
            /\ transactions'[last'.id].Type = "TRANSFER"
            /\ transactions'[last'.id].AccountToID = transactions'[last'.id].AccountFromID)
              => Balances(accounts') = Balances(accounts) ]_vars

\* a transfer of an account onto itself, posted and then reversed
C20_Witness ==
    /\ last.op = "post_reverse"
    /\ transactions[last.id].Type = "TRANSFER"
    /\ transactions[last.id].AccountToID = transactions[last.id].AccountFromID
    /\ transactions[last.id].AccountFromID \in 1..Len(accounts)
    /\ Len(FindByTransaction(journal, last.id)) = 4

\* the change a posted transaction makes to the balance of account a
Delta(tx, a) ==
    CASE tx.Type = "EXPENSE" -> IF tx.AccountFromID = a THEN -tx.Amount ELSE 0
      [] tx.Type = "INCOME" -> IF tx.AccountFromID = a THEN tx.Amount ELSE 0
      [] tx.Type = "TRANSFER" -> (IF tx.AccountFromID = a THEN -tx.Amount ELSE 0)
                                 + (IF tx.AccountToID = a THEN tx.Amount ELSE 0)

RECURSIVE SumDeltas(_, _)
SumDeltas(txs, a) ==
    IF txs = <<>> THEN 0 ELSE Delta(Head(txs), a) + SumDeltas(Tail(txs), a)

\* C17: when the postings run side by side have all committed, the balance
\* of every account is its opening balance plus the change of each of them.
C17_NoLostUpdate ==
    (\A p \in Procs : procs[p].pc = "committed") =>
        \A a \in 1..Len(accounts) :
            accounts[a].Balance
                = OpeningAccounts[a].Balance + SumDeltas(transactions, a)

\* C18: the committed rows change only when a posting commits, and then the
\* transaction row, its two journal entries and the account rows that posting
\* wrote appear in one step; at every moment each committed transaction has
\* its two entries and each committed entry has its transaction.
C18_VisibleTogether ==
    [][ /\ <<accounts', transactions', journal'>> # <<accounts, transactions, journal>>
            => \E p \in Procs :
                  /\ procs[p].pc = "entries" /\ procs'[p].pc = "committed"
                  /\ Len(transactions') = Len(transactions) + 1
                  /\ transactions'[Len(transactions')] = procs[p].tx
                  /\ Len(journal') = Len(journal) + 2
                  /\ \A a \in 1..Len(accounts) :
                        /\ (\E w \in procs[p].writes : w[1] = a)
                              <=> Delta(procs[p].tx, a) # 0
                        /\ \A w \in procs[p].writes : w[1] = a => accounts'[a] = w[2]
                        /\ (\A w \in procs[p].writes : w[1] # a) => accounts'[a] = accounts[a]
        /\ \A id \in 1..Len(transactions') :
              Cardinality({ i \in 1..Len(journal') : journal'[i].TransactionID = id }) = 2
        /\ \A i \in 1..Len(journal') : journal'[i].TransactionID \in 1..Len(transactions')
      ]_vars

\* one posting has committed while another holds inserted rows and a balance
\* write that are not committed
C18_Witness ==
    \E p, q \in Procs :
        /\ procs[p].pc = "committed"
        /\ procs[q].pc \in {"entries", "read"}
        /\ procs[q].writes # {}
        /\ Len(transactions) = 1 /\ Len(journal) = 2

\* the requests of a kind other than INCOME, EXPENSE, TRANSFER that are valid
\* in every other respect
UnsupportedPosts ==
    { p \in PostInputs :
        LET tx == ToModel(p[1], p[2])
        IN /\ tx.Type \notin {"INCOME", "EXPENSE", "TRANSFER"}
           /\ tx.TransactionDate # -1
           /\ Validate(tx) = "" }

Matches(t, owner, f) ==
    /\ t.UserID = owner
    /\ f.Type = "" \/ t.Type = f.Type
    /\ f.AccountID = Nil \/ f.AccountID[1] \in {t.AccountFromID, t.AccountToID}
    /\ f.CategoryID = Nil \/ f.CategoryID[1] = t.CategoryID
    /\ f.StartDate = Nil \/ t.TransactionDate >= f.StartDate[1]
    /\ f.EndDate = Nil \/ t.TransactionDate <= f.EndDate[1]
    /\ f.IsReconciled = Nil \/ t.IsReconciled = f.IsReconciled[1]

\* C22: a list call returns total_count = the number of the owner's rows
\* matching the filters, whatever the page and page size, and as rows the
\* page-th slice of them (page 1 when page < 1) of size page_size clamped to
\* 100 (20 when page_size < 1): never more than that many rows, each of the
\* owner and matching the filters, none twice.
C22_ListPage ==
    last.op = "list" =>
        LET f == last.filters
            rows == last.res.Transactions
            matching == { i \in 1..Len(transactions) : Matches(transactions[i], last.userID, f) }
            size == IF f.PageSize < 1 THEN 20 ELSE IF f.PageSize > 100 THEN 100 ELSE f.PageSize
            page == IF f.Page < 1 THEN 1 ELSE f.Page
            rest == Cardinality(matching) - (page - 1) * size
        IN /\ last.res.Total = Cardinality(matching)
           /\ Len(rows) <= size
           /\ Len(rows) = IF rest < 0 THEN 0 ELSE IF rest < size THEN rest ELSE size
           /\ \A k \in 1..Len(rows) : rows[k] \in matching
           /\ \A k, l \in 1..Len(rows) : rows[k] = rows[l] => k = l

\* a page size above 100 was asked for on more than 100 matching rows, and
\* 100 rows came back
C22_Witness ==
    /\ last.op = "list"
    /\ last.filters.PageSize > 100
    /\ last.res.Total > 100
    /\ Len(last.res.Transactions) = 100

\* C23: the kind of every stored account is a value of the ACCOUNT_TYPE
\* catalog: a create or an update that names another kind stores nothing.
C23_KindInCatalog ==
    \A a \in 1..Len(accounts) : accounts[a].AccountType \in AccountTypeCatalog

\* the sum of the balances of the accounts ids
RECURSIVE SumOf(_)
SumOf(ids) ==
    IF ids = {} THEN 0
    ELSE LET a == CHOOSE i \in ids : TRUE
         IN accounts[a].Balance + SumOf(ids \ {a})

\* the active accounts of the owner that are of one of the kinds
ActiveOf(owner, kinds) ==
    { a \in 1..Len(accounts) :
        /\ accounts[a].UserID = owner
        /\ accounts[a].IsActive
        /\ accounts[a].AccountType \in kinds }

\* C24: total assets, total liabilities and liquid assets of a dashboard are
\* the sums of the balances of the owner's active accounts of kinds BANK,
\* CASH, SAVINGS, INVESTMENT, of kind CREDIT_CARD and of kinds BANK, CASH
\* (0 when there is none), and net worth is total assets minus total
\* liabilities.
C24_Totals ==
    last.op = "dashboard" =>
        /\ last.res.TotalAssets
              = SumOf(ActiveOf(last.userID, {"BANK", "CASH", "SAVINGS", "INVESTMENT"}))
        /\ last.res.TotalLiabilities = SumOf(ActiveOf(last.userID, {"CREDIT_CARD"}))
        /\ last.res.LiquidAssets = SumOf(ActiveOf(last.userID, {"BANK", "CASH"}))
        /\ last.res.NetWorth = last.res.TotalAssets - last.res.TotalLiabilities

\* a dashboard of a user who has an active asset account and a soft-deleted
\* credit card
C24_Witness ==
    /\ last.op = "dashboard"
    /\ last.res.TotalAssets > 0
    /\ \E a \in 1..Len(accounts) :
          /\ accounts[a].UserID = last.userID
          /\ accounts[a].AccountType = "CREDIT_CARD"
          /\ ~accounts[a].IsActive

\* the greatest integer not above num / den, den > 0
Floor(num, den) == IF num >= 0 THEN num \div den ELSE -((-num + den - 1) \div den)

\* C25: runway_days is the greatest integer not above runway_months * 30,
\* also when the available funds are negative.
C25_RunwayDaysFloor ==
    last.op = "runway" =>
        last.res.RunwayDays
            = Floor(last.res.RunwayMonths.num * 30, last.res.RunwayMonths.den)

\* C27: the three months whose expenses a runway computation reads are the
\* month of the current date and the two months before it, each once.
C27_ThreeMonths ==
    last.op = "runway" =>
        /\ \A i, j \in 0..2 : last.months[i] = last.months[j] => i = j
        /\ { last.months[i] : i \in 0..2 } = { MonthOf(last.now) - k : k \in 0..2 }

\* C26: a successful update stores the new value of each field it supplies
\* among description, notes, reconciled flag and transaction date, and
\* changes no journal entry and no account balance.
C26_UpdateApplies ==
    [][ \A id \in 1..Len(transactions), req \in UpdateTransactionInputs :
            (TransactionUpdate(id, req) /\ last'.err = "")
                => /\ req.Description # Nil
                        => transactions'[id].Description = req.Description[1]
                   /\ req.Notes # Nil => transactions'[id].Notes = req.Notes[1]
                   /\ req.IsReconciled # Nil
                        => transactions'[id].IsReconciled = req.IsReconciled[1]
                   /\ req.TransactionDate # Nil
                        => transactions'[id].TransactionDate
                               = ParseDate(req.TransactionDate[1])
                   /\ journal' = journal
                   /\ Balances(accounts') = Balances(accounts) ]_vars

\* C30: in every state a transaction carries the reversed mark exactly when a
\* reverse of it has succeeded; an update of the reconciled flag neither sets
\* the mark on a transaction never reversed nor clears it on a reversed one.
C30_MarkedIffReversed ==
    \A t \in 1..Len(transactions) :
        transactions[t].IsReconciled <=> reversals[t] > 0

\* C28: when the reversals of one transaction run side by side have all
\* finished, the transaction has four journal entries (its two and one
\* reversing pair) and every account has the balance it had before the
\* posting.
C28_OneReversalTakesEffect ==
    (\A p \in Procs : procs[p].pc \in {"committed", "rolled_back"}) =>
        /\ \A id \in 1..Len(transactions) : Len(FindByTransaction(journal, id)) = 4
        /\ Balances(accounts) = Balances(OpeningAccounts)

\* the committed ledger after the first k postings
RECURSIVE LedgerAfter(_)
LedgerAfter(k) ==
    IF k = 0
    THEN [accounts |-> OpeningAccounts, transactions |-> <<>>, journal |-> <<>>]
    ELSE ProcessTransaction(LedgerAfter(k - 1), transactions[k], 0, engine).st

\* C29: the figures of an answered dashboard are those of one committed
\* ledger state: some state the ledger went through gives the total assets,
\* total liabilities, liquid assets, net worth and account balances
\* returned; and when no balance was ever negative, liquid assets do not
\* exceed total assets.
C29_OneLedgerState ==
    \A p \in Procs :
        procs[p].pc = "answered" =>
            LET r == procs[p].response
                States == { LedgerAfter(k).accounts : k \in 0..Len(transactions) }
            IN /\ \E accts \in States :
                     /\ r.TotalAssets = GetTotalAssets(accts, r.UserID)
                     /\ r.TotalLiabilities = GetTotalLiabilities(accts, r.UserID)
                     /\ r.LiquidAssets = GetLiquidAssets(accts, r.UserID)
                     /\ r.NetWorth = GetTotalAssets(accts, r.UserID)
                                        - GetTotalLiabilities(accts, r.UserID)
                     /\ r.AccountBalances = FindByUserID(accts, r.UserID)
               /\ (\A accts \in States : \A a \in 1..Len(accts) : accts[a].Balance >= 0)
                     => r.LiquidAssets <= r.TotalAssets

====
